---------------------------- MODULE Spec2Model ----------------------------
(***************************************************************************)
(* A model of the Bloom filter of src/BloomFilter.py (src/BloomFilterHW.py *)
(* is the same class with the assignment's comments left in).              *)
(*                                                                         *)
(* A client thread constructs a BloomFilter and calls insert, find,        *)
(* falsePositiveRate and numBitsSet on it.  insert and find are modelled   *)
(* statement by statement: each call has its own locals (key, seed, i,     *)
(* index) and a program counter naming the next statement of its loop.     *)
(*                                                                         *)
(* BitHash (BH) is imported, not defined, by the source.  It is modelled   *)
(* as an arbitrary deterministic function: the first time BH(key, seed) is *)
(* evaluated a digest is chosen freely and remembered in hashMemo; every   *)
(* later evaluation of the same pair returns the remembered digest.        *)
(*                                                                         *)
(* Real numbers (the target rate, the projected rate) are exact rationals  *)
(* [num, den]; the sizing formula's ceiling is decided by exact integer    *)
(* comparisons.  The rates of the model are dyadic, and on every input of  *)
(* the model the source's double-precision evaluation returns the same     *)
(* integer as the exact one.                                               *)
(***************************************************************************)
EXTENDS Integers, Sequences, FiniteSets, TLC

(***************************************************************************)
(* Bounds of the model.                                                    *)
(***************************************************************************)
\* BH returns a digest in 0..MaxDigest
MaxDigest == 2
\* the constructor is tried with numKeys in 0..MaxNumKeys
MaxNumKeys == 2
\* the constructor is tried with numHashes in 0..MaxNumHashes
MaxNumHashes == 2

\* the keys the client inserts and looks up
Keys == {1, 2}
Digests == 0..MaxDigest
Inst == {1, 2}
Threads == {1, 2}

\* a rational number num/den, den > 0
Rat(a, b) == [num |-> a, den |-> b]
\* the values of maxFalsePositive the constructor is tried with: 0 and 1 are
\* outside the open interval (0,1)
Rates == {Rat(0, 1), Rat(1, 2), Rat(3, 4), Rat(1, 1)}

RECURSIVE Pow(_, _)
\* x ** e for a natural exponent e
Pow(x, e) == IF e = 0 THEN 1 ELSE x * Pow(x, e - 1)

(***************************************************************************)
(* __bitsNeeded.                                                           *)
(*   phi = 1 - P**(1/d);  return ceil(d / (1 - phi**(1/n)))                *)
(* 1/d raises ZeroDivisionError for d = 0 and 1/n for n = 0.  For P = 0    *)
(* phi is 1.0, phi**(1/n) is 1.0 and d/0.0 raises ZeroDivisionError.       *)
(* Otherwise (0 < P <= 1, so 0 <= phi < 1 and the divisor is in (0,1]),    *)
(* for an integer m >= d:                                                  *)
(*    m >= d/(1 - phi**(1/n))  <=>  phi**(1/n) <= (m-d)/m                  *)
(*                             <=>  1 - P**(1/d) <= ((m-d)/m)**n           *)
(*                             <=>  P >= ((m**n - (m-d)**n) / m**n)**d     *)
(* and the ceiling is the least such m (the quotient is at least d).       *)
(***************************************************************************)
\* the division by zero of line 11 (1/numHashes) or line 12 (1/numKeys, or
\* a divisor 1 - phi**(1/numKeys) that is 0.0)
bitsNeededRaises(numKeys, numHashes, maxFalsePositive) ==
    \/ numHashes = 0
    \/ numKeys = 0
    \/ maxFalsePositive.num = 0

\* m >= numHashes / (1 - phi**(1/numKeys)), for m >= numHashes
QuotientAtMost(m, numKeys, numHashes, maxFalsePositive) ==
    maxFalsePositive.num * Pow(Pow(m, numKeys), numHashes)
      >= maxFalsePositive.den
           * Pow(Pow(m, numKeys) - Pow(m - numHashes, numKeys), numHashes)

RECURSIVE CeilFrom(_, _, _, _)
\* the least integer >= m that is at least the quotient
CeilFrom(m, numKeys, numHashes, maxFalsePositive) ==
    IF QuotientAtMost(m, numKeys, numHashes, maxFalsePositive)
    THEN m
    ELSE CeilFrom(m + 1, numKeys, numHashes, maxFalsePositive)

\* (mutant) math.floor in place of math.ceil
bitsNeededFloor(numKeys, numHashes, maxFalsePositive) ==
    LET c == CeilFrom(numHashes, numKeys, numHashes, maxFalsePositive)
        exact == maxFalsePositive.num * Pow(Pow(c, numKeys), numHashes)
                   = maxFalsePositive.den
                       * Pow(Pow(c, numKeys) - Pow(c - numHashes, numKeys),
                             numHashes)
    IN  IF exact THEN c ELSE c - 1

\* the value __bitsNeeded returns when it does not raise
bitsNeeded(numKeys, numHashes, maxFalsePositive) ==
    CeilFrom(numHashes, numKeys, numHashes, maxFalsePositive)

(***************************************************************************)
(* State.                                                                  *)
(***************************************************************************)
VARIABLES
    \* obj[s]: the attributes of BloomFilter object s: status ("none" before
    \* the constructor ran, "constructed" after __init__ returned, "raised"
    \* when __init__ raised), __numKeys, __numHashes, __maxFalsePos, __N,
    \* __bitVector (a function 0..N-1 -> {0,1}) and __numBits; error is the
    \* exception __init__ raised
    obj,
    \* call[t]: the method call thread t is in: pc ("idle", or the next
    \* statement), op (the method), self (the object), and the locals key,
    \* seed, i, index; ret is the value returned
    call,
    \* the digests BH has returned so far: <<key, seed>> -> digest
    hashMemo,
    \* inserted[s]: the keys whose insert on object s has returned (history)
    inserted,
    \* the call object 1 has returned from and object 2 is given next, when the
    \* client drives two filters with one call sequence
    mirror

vars == <<obj, call, hashMemo, inserted, mirror>>

None == "None"
NoObj == [status |-> "none", numKeys |-> 0, numHashes |-> 0,
          maxFalsePos |-> Rat(0, 1), N |-> 0, bitVector |-> <<>>,
          numBits |-> 0, error |-> None]
\* (history) what a running insert found on entry: the bit vector and counter
NoEntry == [bitVector |-> <<>>, numBits |-> 0]
Idle == [pc |-> "idle", op |-> "none", self |-> 0, key |-> 0, seed |-> 0,
         i |-> 0, index |-> 0, ret |-> None, entry |-> NoEntry]

NoMirror == [op |-> "none", key |-> 0, ret |-> None]

Init ==
    /\ obj = [s \in Inst |-> NoObj]
    /\ call = [t \in Threads |-> Idle]
    /\ hashMemo = <<>>
    /\ inserted = [s \in Inst |-> {}]
    /\ mirror = NoMirror

(***************************************************************************)
(* The statements of the class.                                            *)
(***************************************************************************)
\* BV(size=N): a bit vector of N bits, all 0 (line 33)
NewBitVector(N) == [j \in 0..(N - 1) |-> 0]

\* __init__(numKeys, numHashes, maxFalsePositive) on object s (lines 19-36).
\* The attributes of lines 23-25 are assigned before __bitsNeeded is called,
\* so they are set also when it raises; __N, __bitVector and __numBits are
\* not.
Construct(s, numKeys, numHashes, maxFalsePositive) ==
    /\ obj[s].status = "none"
    /\ \A t \in Threads : call[t].pc = "idle"
    /\ IF bitsNeededRaises(numKeys, numHashes, maxFalsePositive)
       THEN obj' = [obj EXCEPT ![s] =
                      [NoObj EXCEPT !.status = "raised",
                                    !.error = "ZeroDivisionError",
                                    !.numKeys = numKeys,
                                    !.numHashes = numHashes,
                                    !.maxFalsePos = maxFalsePositive]]
       ELSE LET N == bitsNeeded(numKeys, numHashes, maxFalsePositive)
            IN  obj' = [obj EXCEPT ![s] =
                          [status |-> "constructed",
                           numKeys |-> numKeys,
                           numHashes |-> numHashes,
                           maxFalsePos |-> maxFalsePositive,
                           N |-> N,
                           bitVector |-> NewBitVector(N),
                           numBits |-> 0,
                           error |-> None]]
    /\ UNCHANGED <<call, hashMemo, inserted, mirror>>

\* seed = 0 (lines 42 and 62)
StartSeed == 0

\* (mutant) the digest is used as the index without the reduction modulo N
IndexOfRaw(seed, N) == seed

\* seed % self.__N (lines 50 and 71)
IndexOf(seed, N) == seed % N

\* h = BH(key, seed): the digest remembered for the pair, or, the first time
\* the pair is hashed, any digest, remembered from now on (lines 47 and 67)
BH(key, seed, h) ==
    /\ h \in Digests
    /\ IF <<key, seed>> \in DOMAIN hashMemo
       THEN /\ h = hashMemo[<<key, seed>>]
            /\ UNCHANGED hashMemo
       ELSE hashMemo' = (<<key, seed>> :> h) @@ hashMemo

\* (mutant) the test of line 54 left out: every index is written and counted
NotOneAlways(bitVector, index) == TRUE

\* bitVector[index] != 1 (line 54)
NotOne(bitVector, index) == bitVector[index] # 1

\* (mutant) line 55 writes 0
SetBitZero(bitVector, index) == [bitVector EXCEPT ![index] = 0]

\* (mutant) line 55 replaces the vector by one holding only this bit
SetBitOnly(bitVector, index) ==
    [j \in DOMAIN bitVector |-> IF j = index THEN 1 ELSE 0]

\* bitVector[index] = 1 (line 55)
SetBit(bitVector, index) == [bitVector EXCEPT ![index] = 1]

\* (mutant) line 56 left out
IncrForgotten(numBits) == numBits

\* numBits += 1 (line 56)
Incr(numBits) == numBits + 1

\* not bitVector[index] (line 71)
IsZero(bitVector, index) == bitVector[index] = 0

\* thread t enters method op of object s with argument key (0 when the
\* method takes none); insert and find start with seed = 0 (lines 42, 62)
Begin(t, s, op, key) ==
    /\ obj[s].status = "constructed"
    /\ call[t].pc = "idle"
    /\ call' = [call EXCEPT ![t] =
                  [Idle EXCEPT !.pc = IF op \in {"insert", "find"}
                                      THEN "loop" ELSE "body",
                               !.op = op, !.self = s, !.key = key,
                               !.seed = StartSeed,
                               !.entry = IF op = "insert"
                                         THEN [bitVector |-> obj[s].bitVector,
                                               numBits |-> obj[s].numBits]
                                         ELSE NoEntry]]
    /\ UNCHANGED <<obj, hashMemo, inserted>>

(***************************************************************************)
(* insert (lines 39-56).                                                   *)
(***************************************************************************)
\* (mutant) the index is offset by the counter: index = (seed + numBits) % N
InsertHashSalted(t) ==
    LET c == call[t]
        o == obj[c.self]
    IN  /\ c.pc = "loop" /\ c.op = "insert"
        /\ c.i < o.numHashes
        /\ \E h \in Digests :
             /\ BH(c.key, c.seed, h)
             /\ call' = [call EXCEPT ![t].seed = h,
                                     ![t].index = IndexOf(h + o.numBits, o.N),
                                     ![t].pc = "test"]
        /\ UNCHANGED <<obj, inserted, mirror>>

\* for i in range(numHashes): seed = BH(key, seed); index = seed % N
\* (lines 43-50)
InsertHash(t) ==
    LET c == call[t]
        o == obj[c.self]
    IN  /\ c.pc = "loop" /\ c.op = "insert"
        /\ c.i < o.numHashes
        /\ \E h \in Digests :
             /\ BH(c.key, c.seed, h)
             /\ call' = [call EXCEPT ![t].seed = h,
                                     ![t].index = IndexOf(h, o.N),
                                     ![t].pc = "test"]
        /\ UNCHANGED <<obj, inserted, mirror>>

\* (mutant) insert toggles: a bit found to be 1 is cleared
InsertTestClears(t) ==
    LET c == call[t]
        o == obj[c.self]
    IN  /\ c.pc = "test"
        /\ IF NotOne(o.bitVector, c.index)
           THEN /\ call' = [call EXCEPT ![t].pc = "write"]
                /\ UNCHANGED obj
           ELSE /\ call' = [call EXCEPT ![t].pc = "loop", ![t].i = c.i + 1]
                /\ obj' = [obj EXCEPT ![c.self].bitVector[c.index] = 0]
        /\ UNCHANGED <<hashMemo, inserted, mirror>>

\* if self.__bitVector[index] != 1: (line 54)
InsertTest(t) ==
    LET c == call[t]
        o == obj[c.self]
    IN  /\ c.pc = "test"
        /\ IF NotOne(o.bitVector, c.index)
           THEN call' = [call EXCEPT ![t].pc = "write"]
           ELSE call' = [call EXCEPT ![t].pc = "loop", ![t].i = c.i + 1]
        /\ UNCHANGED <<obj, hashMemo, inserted, mirror>>

\* (mutant) __bitVector is an attribute of the class, shared by every object:
\* line 55 writes the bit in all of them
InsertWriteShared(t) ==
    LET c == call[t]
    IN  /\ c.pc = "write"
        /\ obj' = [s \in Inst |->
                     IF obj[s].status = "constructed"
                     THEN [obj[s] EXCEPT
                             !.bitVector = SetBit(obj[s].bitVector, c.index)]
                     ELSE obj[s]]
        /\ call' = [call EXCEPT ![t].pc = "count"]
        /\ UNCHANGED <<hashMemo, inserted, mirror>>

\* self.__bitVector[index] = 1 (line 55)
InsertWrite(t) ==
    LET c == call[t]
        o == obj[c.self]
    IN  /\ c.pc = "write"
        /\ obj' = [obj EXCEPT ![c.self].bitVector = SetBit(o.bitVector, c.index)]
        /\ call' = [call EXCEPT ![t].pc = "count"]
        /\ UNCHANGED <<hashMemo, inserted, mirror>>

\* (mutant) line 56 increments __N instead of __numBits
InsertCountBumpsN(t) ==
    LET c == call[t]
        o == obj[c.self]
    IN  /\ c.pc = "count"
        /\ obj' = [obj EXCEPT ![c.self].N = o.N + 1]
        /\ call' = [call EXCEPT ![t].pc = "loop", ![t].i = c.i + 1]
        /\ UNCHANGED <<hashMemo, inserted, mirror>>

\* self.__numBits += 1 (line 56)
InsertCount(t) ==
    LET c == call[t]
        o == obj[c.self]
    IN  /\ c.pc = "count"
        /\ obj' = [obj EXCEPT ![c.self].numBits = Incr(o.numBits)]
        /\ call' = [call EXCEPT ![t].pc = "loop", ![t].i = c.i + 1]
        /\ UNCHANGED <<hashMemo, inserted, mirror>>

\* the loop of insert is exhausted: insert returns (None)
InsertEnd(t) ==
    LET c == call[t]
        o == obj[c.self]
    IN  /\ c.pc = "loop" /\ c.op = "insert"
        /\ c.i >= o.numHashes
        /\ call' = [call EXCEPT ![t].pc = "done", ![t].ret = None]
        /\ UNCHANGED <<obj, hashMemo, inserted, mirror>>

(***************************************************************************)
(* find (lines 59-75).                                                     *)
(***************************************************************************)
\* (mutant) find seeds each round with the loop counter, seed = BH(key, i),
\* instead of chaining the digests
FindHashByCounter(t) ==
    LET c == call[t]
        o == obj[c.self]
    IN  /\ c.pc = "loop" /\ c.op = "find"
        /\ c.i < o.numHashes
        /\ \E h \in Digests :
             /\ BH(c.key, c.i, h)
             /\ call' = [call EXCEPT ![t].seed = h, ![t].pc = "probe"]
        /\ UNCHANGED <<obj, inserted, mirror>>

\* for i in range(numHashes): seed = BH(key, seed) (lines 63-67)
FindHash(t) ==
    LET c == call[t]
        o == obj[c.self]
    IN  /\ c.pc = "loop" /\ c.op = "find"
        /\ c.i < o.numHashes
        /\ \E h \in Digests :
             /\ BH(c.key, c.seed, h)
             /\ call' = [call EXCEPT ![t].seed = h, ![t].pc = "probe"]
        /\ UNCHANGED <<obj, inserted, mirror>>

\* (mutant) find writes the bit it probes, as insert does
FindProbeSets(t) ==
    LET c == call[t]
        o == obj[c.self]
    IN  /\ c.pc = "probe"
        /\ IF IsZero(o.bitVector, IndexOf(c.seed, o.N))
           THEN /\ call' = [call EXCEPT ![t].pc = "done", ![t].ret = FALSE]
                /\ obj' = [obj EXCEPT ![c.self].bitVector =
                              SetBit(o.bitVector, IndexOf(c.seed, o.N))]
           ELSE /\ call' = [call EXCEPT ![t].pc = "loop", ![t].i = c.i + 1]
                /\ obj' = obj
        /\ UNCHANGED <<hashMemo, inserted, mirror>>

\* (mutant) the return of line 72 left out: after a 0 bit the loop goes on
FindProbeNoReturn(t) ==
    LET c == call[t]
    IN  /\ c.pc = "probe"
        /\ call' = [call EXCEPT ![t].pc = "loop", ![t].i = c.i + 1]
        /\ UNCHANGED <<obj, hashMemo, inserted, mirror>>

\* if not self.__bitVector[seed % self.__N]: return False (lines 71-72)
FindProbe(t) ==
    LET c == call[t]
        o == obj[c.self]
    IN  /\ c.pc = "probe"
        /\ IF IsZero(o.bitVector, IndexOf(c.seed, o.N))
           THEN call' = [call EXCEPT ![t].pc = "done", ![t].ret = FALSE]
           ELSE call' = [call EXCEPT ![t].pc = "loop", ![t].i = c.i + 1]
        /\ UNCHANGED <<obj, hashMemo, inserted, mirror>>

\* return True (line 75)
FindEnd(t) ==
    LET c == call[t]
        o == obj[c.self]
    IN  /\ c.pc = "loop" /\ c.op = "find"
        /\ c.i >= o.numHashes
        /\ call' = [call EXCEPT ![t].pc = "done", ![t].ret = TRUE]
        /\ UNCHANGED <<obj, hashMemo, inserted, mirror>>

(***************************************************************************)
(* falsePositiveRate (lines 78-83) and numBitsSet (lines 85-86).           *)
(***************************************************************************)
\* (mutant) line 83 returns phi**numHashes
falsePositiveRatePhi(N, numBits, numHashes) ==
    LET phi == Rat(N - numBits, N)
    IN  Rat(Pow(phi.num, numHashes), Pow(phi.den, numHashes))

\* phi = (N - numBits)/N; return (1 - phi)**numHashes
falsePositiveRate(N, numBits, numHashes) ==
    LET phi == Rat(N - numBits, N)
        oneMinusPhi == Rat(phi.den - phi.num, phi.den)
    IN  Rat(Pow(oneMinusPhi.num, numHashes), Pow(oneMinusPhi.den, numHashes))

\* (mutant) falsePositiveRate returns the rate the filter was built for
FalsePositiveRateBodyTarget(t) ==
    LET c == call[t]
        o == obj[c.self]
    IN  /\ c.pc = "body" /\ c.op = "falsePositiveRate"
        /\ call' = [call EXCEPT ![t].pc = "done", ![t].ret = o.maxFalsePos]
        /\ UNCHANGED <<obj, hashMemo, inserted, mirror>>

\* return (1 - phi)**self.__numHashes (line 83)
FalsePositiveRateBody(t) ==
    LET c == call[t]
        o == obj[c.self]
    IN  /\ c.pc = "body" /\ c.op = "falsePositiveRate"
        /\ call' = [call EXCEPT
                      ![t].pc = "done",
                      ![t].ret = falsePositiveRate(o.N, o.numBits, o.numHashes)]
        /\ UNCHANGED <<obj, hashMemo, inserted, mirror>>

\* return self.__numBits (line 86)
NumBitsSetBody(t) ==
    LET c == call[t]
        o == obj[c.self]
    IN  /\ c.pc = "body" /\ c.op = "numBitsSet"
        /\ call' = [call EXCEPT ![t].pc = "done", ![t].ret = o.numBits]
        /\ UNCHANGED <<obj, hashMemo, inserted, mirror>>

\* the call of thread t has returned: its locals are gone; a returned insert
\* is recorded in the history
Return(t) ==
    LET c == call[t]
    IN  /\ c.pc = "done"
        /\ call' = [call EXCEPT ![t] = Idle]
        /\ inserted' = IF c.op = "insert"
                       THEN [inserted EXCEPT ![c.self] = @ \cup {c.key}]
                       ELSE inserted
        /\ UNCHANGED <<obj, hashMemo>>

\* one statement of the call thread t is in
Step(t) ==
    \/ InsertHash(t)
    \/ InsertTest(t)
    \/ InsertWrite(t)
    \/ InsertCount(t)
    \/ InsertEnd(t)
    \/ FindHash(t)
    \/ FindProbe(t)
    \/ FindEnd(t)
    \/ FalsePositiveRateBody(t)
    \/ NumBitsSetBody(t)

\* the methods and their arguments
Methods == {"insert", "find", "falsePositiveRate", "numBitsSet"}
Args(op) == IF op \in {"insert", "find"} THEN Keys ELSE {0}

(***************************************************************************)
(* Spec: the single-threaded client of one filter.  It constructs object 1 *)
(* with any parameters of the model and then calls its methods one at a    *)
(* time, in any order and any number of times.                             *)
(***************************************************************************)
ClientConstruct ==
    \E n \in 0..MaxNumKeys, d \in 0..MaxNumHashes, P \in Rates :
       Construct(1, n, d, P)

ClientCall ==
    \E op \in Methods : \E k \in Args(op) :
       /\ Begin(1, 1, op, k)
       /\ mirror' = mirror

ClientReturn ==
    /\ Return(1)
    /\ mirror' = mirror

Next ==
    \/ ClientConstruct
    \/ ClientCall
    \/ Step(1)
    \/ ClientReturn

Spec == Init /\ [][Next]_vars

(***************************************************************************)
(* SpecDet: the client of two filters.  It constructs objects 1 and 2 with *)
(* the same parameters and gives both the same calls in the same order:    *)
(* each call on object 1 is followed by the same call on object 2.  mirror *)
(* holds the call object 1 has returned from and object 2 has not yet.     *)
(* Both objects use the one hash function.                                 *)
(***************************************************************************)
DetConstructSecond ==
    /\ obj[1].status = "constructed"
    /\ Construct(2, obj[1].numKeys, obj[1].numHashes, obj[1].maxFalsePos)

DetCallFirst ==
    \E op \in Methods : \E k \in Args(op) :
       /\ obj[2].status = "constructed"
       /\ mirror = NoMirror
       /\ Begin(1, 1, op, k)
       /\ mirror' = mirror

DetReturnFirst ==
    /\ call[1].self = 1
    /\ Return(1)
    /\ mirror' = [op |-> call[1].op, key |-> call[1].key, ret |-> call[1].ret]

DetCallSecond ==
    /\ mirror # NoMirror
    /\ Begin(1, 2, mirror.op, mirror.key)
    /\ mirror' = mirror

DetReturnSecond ==
    /\ call[1].self = 2
    /\ Return(1)
    /\ mirror' = NoMirror

NextDet ==
    \/ ClientConstruct
    \/ DetConstructSecond
    \/ DetCallFirst
    \/ DetReturnFirst
    \/ DetCallSecond
    \/ DetReturnSecond
    \/ Step(1)

SpecDet == Init /\ [][NextDet]_vars

(***************************************************************************)
(* SpecConc: two threads share filter 1 and call insert and numBitsSet on  *)
(* it.  The class takes no lock and has no other synchronization, so the   *)
(* statements of the calls of the two threads interleave in any order.     *)
(* Each statement (the test of line 54, the write of line 55, the          *)
(* increment of line 56) is taken as one step; a finer interleaving inside *)
(* a statement only adds behaviours.                                       *)
(***************************************************************************)
ConcMethods == {"insert", "numBitsSet"}

\* the filter the threads share: one key expected, target rate 1/2
ConcConstruct ==
    \E d \in 1..MaxNumHashes : Construct(1, 1, d, Rat(1, 2))

ConcCall ==
    \E t \in Threads : \E op \in ConcMethods : \E k \in Args(op) :
       /\ Begin(t, 1, op, k)
       /\ mirror' = mirror

ConcStep ==
    \E t \in Threads :
       \/ InsertHash(t)
       \/ InsertTest(t)
       \/ InsertWrite(t)
       \/ InsertCount(t)
       \/ InsertEnd(t)
       \/ NumBitsSetBody(t)

ConcReturn ==
    \E t \in Threads :
       /\ Return(t)
       /\ mirror' = mirror

NextConc ==
    \/ ConcConstruct
    \/ ConcCall
    \/ ConcStep
    \/ ConcReturn

SpecConc == Init /\ [][NextConc]_vars

(***************************************************************************)
(* Properties.                                                             *)
(***************************************************************************)
\* the parameters the specification calls valid
ValidParams(o) ==
    /\ o.numKeys >= 1
    /\ o.numHashes >= 1
    /\ 0 < o.maxFalsePos.num
    /\ o.maxFalsePos.num < o.maxFalsePos.den

\* the number of 1 bits of a bit vector
OnesIn(bitVector) == Cardinality({j \in DOMAIN bitVector : bitVector[j] = 1})

\* a <= b for rationals with positive denominators
RatLeq(a, b) == a.num * b.den <= b.num * a.den

\* what s.falsePositiveRate() returns in the current state
ProjectedRate(s) ==
    falsePositiveRate(obj[s].N, obj[s].numBits, obj[s].numHashes)

\* the false-positive rate of the sizing model for m bits:
\* (1 - (1 - d/m)**n)**d
ModelRate(m, n, d) ==
    Rat(Pow(Pow(m, n) - Pow(m - d, n), d), Pow(Pow(m, n), d))

Queries == {"find", "falsePositiveRate", "numBitsSet"}

\* C1: no false negatives: a find(k) that returns after an insert(k) on the
\* same filter has returned, returns True, whatever else was inserted.
NoFalseNegatives ==
    \A t \in Threads :
       (/\ call[t].pc = "done"
        /\ call[t].op = "find"
        /\ call[t].key \in inserted[call[t].self])
       => call[t].ret = TRUE

\* C1 witness: a find of an inserted key has returned, two keys being in
\* the filter.
FoundInsertedKey ==
    \E t \in Threads :
       /\ call[t].pc = "done"
       /\ call[t].op = "find"
       /\ call[t].key \in inserted[call[t].self]
       /\ Cardinality(inserted[call[t].self]) >= 2

\* C2: whenever no insert stands between its write of a bit (line 55) and
\* its count of it (line 56), so in particular between calls, __numBits is
\* the number of 1 bits of the vector; it is 0 as long as no insert was
\* called and always in 0..N.
CounterEqualsOnes ==
    \A s \in Inst :
       obj[s].status = "constructed" =>
          /\ obj[s].numBits \in 0..obj[s].N
          /\ (\A t \in Threads : ~(call[t].self = s /\ call[t].pc = "count"))
               => obj[s].numBits = OnesIn(obj[s].bitVector)
          /\ (inserted[s] = {} /\ \A t \in Threads : call[t].op # "insert")
               => obj[s].numBits = 0

\* C2 witness: between calls, with two bits set and counted.
TwoBitsCounted ==
    /\ \A t \in Threads : call[t].pc = "idle"
    /\ obj[1].status = "constructed"
    /\ obj[1].numBits = 2
    /\ OnesIn(obj[1].bitVector) = 2

\* C3 (as stated): a constructor call with numKeys < 1, numHashes < 1 or a
\* rate outside (0,1) ends in an error, and no filter results.  (The kind of
\* the error is left open here: whatever is raised counts.)
InvalidParametersRejected ==
    \A s \in Inst :
       (obj[s].status # "none" /\ ~ValidParams(obj[s]))
       => obj[s].status = "raised"

\* C4: insert is idempotent: an insert of a key whose insert on the same
\* filter has already returned changes neither the bit vector nor the
\* counter, at any of its steps; so insert(k); insert(k) ends in the state
\* insert(k) ended in.
InsertIdempotent ==
    [][\A t \in Threads :
          (/\ call[t].op = "insert"
           /\ call[t].key \in inserted[call[t].self])
          => obj' = obj]_vars

\* C4 witness: a second insert of the same key has run to its end.
SecondInsertDone ==
    \E t \in Threads :
       /\ call[t].pc = "done"
       /\ call[t].op = "insert"
       /\ call[t].key \in inserted[call[t].self]

\* C5: the bit vector is monotonic: no step of any operation turns a 1 bit
\* into 0.
BitsNeverCleared ==
    [][\A s \in Inst : \A j \in DOMAIN obj[s].bitVector :
          obj[s].bitVector[j] = 1 => obj'[s].bitVector[j] = 1]_vars

\* C5 witness: two bits are set, two keys were inserted and a find has
\* run on top of them.
BitsKeptAcrossCalls ==
    /\ OnesIn(obj[1].bitVector) >= 2
    /\ Cardinality(inserted[1]) >= 2
    /\ call[1].pc = "done"
    /\ call[1].op = "find"

\* C6: the counter never decreases; it changes only at line 56 of an insert,
\* by one; and line 56 is reached only by the step (line 55) that turns the
\* bit at the insert's index from 0 into 1.
CounterGrowsOnlyBySetting ==
    [][\A s \in Inst :
          obj[s].status = "constructed" =>
             /\ obj'[s].numBits >= obj[s].numBits
             /\ obj'[s].numBits # obj[s].numBits
                  => \E t \in Threads :
                        /\ call[t].self = s
                        /\ call[t].op = "insert"
                        /\ call[t].pc = "count"
                        /\ obj'[s].numBits = obj[s].numBits + 1
             /\ \A t \in Threads :
                   (/\ call[t].self = s
                    /\ call[t].pc # "count"
                    /\ call'[t].pc = "count")
                   => /\ call[t].op = "insert"
                      /\ obj[s].bitVector[call[t].index] = 0
                      /\ obj'[s].bitVector[call[t].index] = 1]_vars

\* C6 witness: numBitsSet has returned 2 after inserts.
CounterReadAfterInserts ==
    /\ call[1].pc = "done"
    /\ call[1].op = "numBitsSet"
    /\ call[1].ret = 2
    /\ inserted[1] # {}

\* C7: determinism: two filters constructed with the same parameters and
\* given the same calls in the same order, with the same hash function,
\* have equal attributes (bit vector and counter among them) after every
\* call, and every call returns on the second what it returned on the first.
SameCallsSameState ==
    /\ (/\ obj[1].status = "constructed"
        /\ obj[2].status = "constructed"
        /\ mirror = NoMirror
        /\ call[1].pc = "idle")
       => obj[1] = obj[2]
    /\ (call[1].pc = "done" /\ call[1].self = 2)
       => /\ call[1].op = mirror.op
          /\ call[1].ret = mirror.ret

\* C7 witness: both filters have been given the same calls, two inserts
\* that set two bits among them.
BothFiltersDriven ==
    /\ obj[2].status = "constructed"
    /\ mirror = NoMirror
    /\ call[1].pc = "idle"
    /\ Cardinality(inserted[2]) >= 2
    /\ obj[2].numBits >= 2

\* C8: no step of find, falsePositiveRate or numBitsSet (the call, any
\* statement, the return, an early return of find included) changes any
\* attribute of any filter.
QueriesChangeNothing ==
    [][\A t \in Threads :
          (/\ call'[t].pc # call[t].pc
           /\ (call[t].op \in Queries \/ call'[t].op \in Queries))
          => obj' = obj]_vars

\* C8 witness: on a filter holding a key, a find has returned False before
\* its last index.
FindReturnedEarly ==
    /\ call[1].pc = "done"
    /\ call[1].op = "find"
    /\ call[1].ret = FALSE
    /\ call[1].i + 1 < obj[1].numHashes
    /\ inserted[1] # {}

\* C9: with N and numHashes fixed the projected rate is non-decreasing in
\* the counter; it is 0 while the counter is 0 and 1 when the counter is N;
\* and no step lowers what falsePositiveRate() would return.
ProjectedRateMonotone ==
    /\ [](\A s \in Inst :
            obj[s].status = "constructed" =>
               /\ \A b \in 0..(obj[s].N - 1) :
                     RatLeq(falsePositiveRate(obj[s].N, b, obj[s].numHashes),
                            falsePositiveRate(obj[s].N, b + 1, obj[s].numHashes))
               /\ obj[s].numBits = 0 => ProjectedRate(s).num = 0
               /\ obj[s].numBits = obj[s].N
                    => ProjectedRate(s).num = ProjectedRate(s).den)
    /\ [][\A s \in Inst :
             obj[s].status = "constructed"
             => RatLeq(ProjectedRate(s), ProjectedRate(s)')]_vars

\* C9 witness: falsePositiveRate has returned a rate strictly between 0
\* and 1.
RateStrictlyBetween ==
    /\ call[1].pc = "done"
    /\ call[1].op = "falsePositiveRate"
    /\ 0 < call[1].ret.num
    /\ call[1].ret.num < call[1].ret.den

RECURSIVE ChainSeed(_, _)
\* the seed after j rounds of seed = BH(key, seed), from seed = 0
ChainSeed(key, j) ==
    IF j = 0 THEN StartSeed ELSE hashMemo[<<key, ChainSeed(key, j - 1)>>]

RECURSIVE ChainKnown(_, _)
\* BH has been evaluated for the first j rounds of key's chain
ChainKnown(key, j) ==
    \/ j = 0
    \/ /\ ChainKnown(key, j - 1)
       /\ <<key, ChainSeed(key, j - 1)>> \in DOMAIN hashMemo

\* the j-th index (j = 1..numHashes) of key's sequence in object s
IndexAt(s, key, j) == IndexOf(ChainSeed(key, j), obj[s].N)

\* the indices of key's sequence in object s
IndexSet(s, key) == {IndexAt(s, key, j) : j \in 1..obj[s].numHashes}

\* C11: a find that has returned True has met a 1 bit at every index of
\* the key's sequence; one that has returned False stopped at the first
\* index of the sequence whose bit is 0 (position i + 1, the bits before it
\* being 1).  A probe that meets a 0 bit ends the call at once, and an ended
\* call only returns: BH is not evaluated for the indices that remain.
FindAnswersAllBits ==
    /\ [](\A t \in Threads :
            (call[t].pc = "done" /\ call[t].op = "find") =>
               LET s == call[t].self
                   k == call[t].key
                   d == obj[s].numHashes
               IN  /\ call[t].ret = TRUE =>
                       /\ ChainKnown(k, d)
                       /\ \A j \in 1..d :
                             obj[s].bitVector[IndexAt(s, k, j)] = 1
                   /\ call[t].ret = FALSE =>
                       /\ call[t].i < d
                       /\ ChainKnown(k, call[t].i + 1)
                       /\ call[t].seed = ChainSeed(k, call[t].i + 1)
                       /\ obj[s].bitVector[IndexAt(s, k, call[t].i + 1)] = 0
                       /\ \A j \in 1..call[t].i :
                             obj[s].bitVector[IndexAt(s, k, j)] = 1)
    /\ [][\A t \in Threads :
             /\ (/\ call[t].op = "find"
                 /\ call[t].pc = "probe"
                 /\ obj[call[t].self].bitVector[
                       IndexOf(call[t].seed, obj[call[t].self].N)] = 0)
                => (/\ call'[t].pc = "done"
                    /\ call'[t].ret = FALSE
                    /\ call'[t].i = call[t].i
                    /\ hashMemo' = hashMemo)
             /\ call[t].pc = "done" => call'[t].pc \in {"done", "idle"}]_vars

\* C11 witness: a find has returned False at the first of two indices, and
\* BH was never evaluated for the second.
FindStoppedBeforeHashing ==
    /\ call[1].pc = "done"
    /\ call[1].op = "find"
    /\ call[1].ret = FALSE
    /\ call[1].i = 0
    /\ obj[1].numHashes = 2
    /\ <<call[1].key, call[1].seed>> \notin DOMAIN hashMemo

\* C12: insert and find walk the same chain for a key: at the head of
\* round i the local seed is the seed after i rounds of BH from seed 0,
\* inside round i it is the seed after i + 1 rounds, the index insert tests
\* and writes is that seed modulo N, and an insert that has ended has gone
\* through all numHashes rounds.
SameChainInInsertAndFind ==
    \A t \in Threads :
       call[t].op \in {"insert", "find"} =>
          LET c == call[t]
              s == c.self
              k == c.key
              d == obj[s].numHashes
          IN  /\ c.pc = "loop" =>
                  /\ c.i <= d
                  /\ ChainKnown(k, c.i)
                  /\ c.seed = ChainSeed(k, c.i)
              /\ c.pc \in {"test", "write", "count", "probe"} =>
                  /\ c.i < d
                  /\ ChainKnown(k, c.i + 1)
                  /\ c.seed = ChainSeed(k, c.i + 1)
              /\ c.pc \in {"test", "write", "count"} =>
                  c.index = IndexAt(s, k, c.i + 1)
              /\ (c.pc = "done" /\ c.op = "insert") =>
                  /\ c.i = d
                  /\ ChainKnown(k, d)
                  /\ c.seed = ChainSeed(k, d)

\* C12 witness: find is in its second round on a key that was inserted
\* before, probing the second index insert wrote.
FindFollowsInsertedChain ==
    /\ call[1].op = "find"
    /\ call[1].pc = "probe"
    /\ call[1].i = 1
    /\ call[1].key \in inserted[1]
    /\ obj[1].numHashes = 2
    /\ IndexAt(1, call[1].key, 2) # IndexAt(1, call[1].key, 1)

\* C13: in a constructed filter (with valid parameters, and equally with
\* the invalid ones the constructor lets through) every index insert tests
\* or writes, and every index find probes, is one of 0..N-1, the positions
\* of the bit vector; and a call of insert or find that has not ended
\* always has its next statement to execute, so both run to their return.
IndicesInRange ==
    \A t \in Threads :
       (/\ call[t].op \in {"insert", "find"}
        /\ obj[call[t].self].status = "constructed") =>
          LET c == call[t]
              o == obj[c.self]
          IN  /\ o.N >= 1
              /\ c.pc \in {"test", "write", "count"} =>
                  /\ c.index \in 0..(o.N - 1)
                  /\ c.index \in DOMAIN o.bitVector
              /\ c.pc = "probe" =>
                  /\ IndexOf(c.seed, o.N) \in 0..(o.N - 1)
                  /\ IndexOf(c.seed, o.N) \in DOMAIN o.bitVector
              /\ c.pc \in {"loop", "test", "write", "count", "probe"} =>
                  ENABLED Step(t)

\* C13 witness: insert is about to write index 0 of a two-bit filter, the
\* digest 2 having been reduced modulo N = 2.
DigestWrappedIntoRange ==
    /\ call[1].op = "insert"
    /\ call[1].pc = "write"
    /\ ValidParams(obj[1])
    /\ obj[1].N = 2
    /\ call[1].seed = 2
    /\ call[1].index = 0

\* the indices of key's sequence whose bit is 0 in bitVector
ZeroIndices(s, key, bitVector) ==
    {x \in IndexSet(s, key) : bitVector[x] = 0}

\* C14: an insert that has ended has raised the counter by the number of
\* distinct indices of the key's sequence whose bit was 0 when the call was
\* entered; that number is at most numHashes, an index that occurs twice in
\* the sequence counting once.
InsertCountsDistinctZeroBits ==
    \A t \in Threads :
       (call[t].pc = "done" /\ call[t].op = "insert") =>
          LET c == call[t]
              s == c.self
              fresh == ZeroIndices(s, c.key, c.entry.bitVector)
          IN  /\ obj[s].numBits - c.entry.numBits = Cardinality(fresh)
              /\ Cardinality(fresh) <= Cardinality(IndexSet(s, c.key))
              /\ Cardinality(IndexSet(s, c.key)) <= obj[s].numHashes

\* C14 witness: an insert with two hash rounds has ended whose two indices
\* are the same index, 0 on entry, and the counter has gone up by one.
RepeatedIndexCountedOnce ==
    /\ call[1].pc = "done"
    /\ call[1].op = "insert"
    /\ obj[1].numHashes = 2
    /\ IndexAt(1, call[1].key, 1) = IndexAt(1, call[1].key, 2)
    /\ call[1].entry.bitVector[IndexAt(1, call[1].key, 1)] = 0
    /\ obj[1].numBits = call[1].entry.numBits + 1

\* C15: the value falsePositiveRate returns is (numBits/N)^numHashes, with
\* numBits, N and numHashes as they are in the state of the call: as a
\* fraction, ret.num/ret.den = numBits^numHashes / N^numHashes.  The target
\* rate the filter was constructed with does not enter.
RateIsSetFractionToHashes ==
    \A t \in Threads :
       (call[t].pc = "done" /\ call[t].op = "falsePositiveRate") =>
          LET o == obj[call[t].self]
              r == call[t].ret
          IN  /\ r.den > 0
              /\ r.num * Pow(o.N, o.numHashes)
                    = Pow(o.numBits, o.numHashes) * r.den

\* C15 witness: falsePositiveRate has returned 1/9 = (1/3)^2 on a three-bit
\* filter with one bit set, built for another rate.
RateOneNinth ==
    /\ call[1].pc = "done"
    /\ call[1].op = "falsePositiveRate"
    /\ obj[1].N = 3
    /\ obj[1].numBits = 1
    /\ obj[1].numHashes = 2
    /\ call[1].ret = Rat(1, 9)
    /\ obj[1].maxFalsePos # Rat(1, 9)

\* C16: once a filter is constructed, no step changes its N, numHashes,
\* numKeys or maxFalsePositive, the filter stays constructed, and in every
\* state its bit vector has exactly the positions 0..N-1.
ParametersFixed ==
    /\ [](\A s \in Inst :
            obj[s].status = "constructed" =>
               DOMAIN obj[s].bitVector = 0..(obj[s].N - 1))
    /\ [][\A s \in Inst :
             obj[s].status = "constructed" =>
                /\ obj'[s].status = "constructed"
                /\ obj'[s].N = obj[s].N
                /\ obj'[s].numHashes = obj[s].numHashes
                /\ obj'[s].numKeys = obj[s].numKeys
                /\ obj'[s].maxFalsePos = obj[s].maxFalsePos
                /\ DOMAIN obj'[s].bitVector = DOMAIN obj[s].bitVector]_vars

\* C16 witness: both keys have been inserted into a four-bit filter, three
\* bits are set, and falsePositiveRate has been evaluated on it.
FourBitFilterAfterCalls ==
    /\ inserted[1] = Keys
    /\ call[1].pc = "done"
    /\ call[1].op = "falsePositiveRate"
    /\ obj[1].N = 4
    /\ obj[1].numBits = 3
    /\ DOMAIN obj[1].bitVector = 0..3

\* C17: with two threads calling insert on one filter, the statements of
\* the two calls interleaving, whenever both threads are outside any call
\* the counter equals the number of 1 bits of the vector.
ConcurrentCounterExact ==
    (/\ obj[1].status = "constructed"
     /\ \A t \in Threads : call[t].pc = "idle") =>
       obj[1].numBits = OnesIn(obj[1].bitVector)

\* find(key) on object s answers True in this state: the key's whole chain
\* has been hashed and the bit at each of its indices is 1
AnswersTrue(s, key) ==
    /\ obj[s].status = "constructed"
    /\ ChainKnown(key, obj[s].numHashes)
    /\ \A j \in 1..obj[s].numHashes :
          obj[s].bitVector[IndexAt(s, key, j)] = 1

\* C18: a find that has returned True did so in a state where the key's
\* bits are all 1; no step of any call takes a filter out of such a state;
\* and a find that ends in such a state has returned True.  So once
\* find(k) has returned True, every later find(k) on the filter returns
\* True.
PositiveAnswersStay ==
    /\ [](\A t \in Threads :
            (call[t].pc = "done" /\ call[t].op = "find") =>
               (call[t].ret = TRUE <=> AnswersTrue(call[t].self, call[t].key)))
    /\ [][\A s \in Inst : \A k \in Keys :
             AnswersTrue(s, k) => AnswersTrue(s, k)']_vars

\* C18 witness: find has returned True for a key that was never inserted,
\* on the bits another key set: a positive answer that later inserts keep.
FalsePositiveAnswered ==
    /\ call[1].pc = "done"
    /\ call[1].op = "find"
    /\ call[1].ret = TRUE
    /\ call[1].key \notin inserted[1]
    /\ inserted[1] # {}
    /\ obj[1].numHashes = 2

\* the indices of the sequences of all keys in the set keys
IndicesOf(s, keys) == UNION {IndexSet(s, k) : k \in keys}

\* C19: whenever no insert is running, the state of a filter is a function
\* of the set of keys inserted so far: the bits that are 1 are exactly the
\* indices of those keys' sequences, and the counter is their number.  The
\* order of the inserts and the number of times a key was inserted do not
\* enter, so insert(a); insert(b) and insert(b); insert(a) end in the same
\* bit vector and counter.
StateDependsOnKeySet ==
    \A s \in Inst :
       (/\ obj[s].status = "constructed"
        /\ \A t \in Threads :
              ~(call[t].op = "insert" /\ call[t].self = s)) =>
          /\ \A k \in inserted[s] : ChainKnown(k, obj[s].numHashes)
          /\ obj[s].bitVector =
                [x \in 0..(obj[s].N - 1) |->
                    IF x \in IndicesOf(s, inserted[s]) THEN 1 ELSE 0]
          /\ obj[s].numBits = Cardinality(IndicesOf(s, inserted[s]))

\* C19 witness: both keys have been inserted, with two hash rounds each,
\* their index sets differ and overlap, and three bits are set.
TwoKeysThreeBits ==
    /\ call[1].pc = "idle"
    /\ inserted[1] = Keys
    /\ obj[1].numHashes = 2
    /\ obj[1].numBits = 3
    /\ IndexSet(1, 1) # IndexSet(1, 2)
    /\ IndexSet(1, 1) \cap IndexSet(1, 2) # {}

=============================================================================
